---- MODULE Spec2Model ----
(***************************************************************************)
(* A model of the SDC constraint parser (examples/sdc_parser.py):          *)
(* the comment/continuation preprocessor, the tokenizer, the Tcl           *)
(* collection resolver, the command dispatcher, the per-command parsers    *)
(* and the strict/lenient error reporter.                                  *)
(*                                                                         *)
(* Text is a sequence of one-character strings.  Python indexes from 0;    *)
(* the cursors here (i, idx) index from 1, so a cursor value here is the   *)
(* Python value plus one and "i < n" in the code reads "i <= n" here.      *)
(***************************************************************************)
EXTENDS Integers, Sequences, FiniteSets, TLC

VARIABLES
    strict,          \* SDCParser.strict
    numbered_lines,  \* the raw physical lines the input iterator has yielded
    pending,         \* _iter_commands: text of an open continuation group
    start_line,      \* _iter_commands: first physical line of the group
    clocks,          \* SDCConstraintSet.clocks
    io_delays,       \* SDCConstraintSet.io_delays
    exceptions,      \* SDCConstraintSet.exceptions
    raw_commands,    \* SDCConstraintSet.raw_commands
    status,          \* "parsing", "returned", "ParseError", "OverflowError"
    error,           \* the ParseError raised (line_num, line_text, message)
    warnings,        \* the diagnostics logger.warning received
    earlier,         \* the outcomes of the earlier parse calls, as the caller holds them
    text,            \* scanner run: the raw line under scan
    scan_pc,         \* scanner run: position in the pipeline
    stripped,        \* scanner run: _strip_comment(text)
    command,         \* scanner run: the logical command handed to _tokenize
    i,               \* _tokenize: the cursor
    tokens,          \* _tokenize: the tokens appended so far
    names            \* scanner run: _extract_names of every token

parser_vars ==
    <<strict, numbered_lines, pending, start_line, clocks, io_delays,
      exceptions, raw_commands, status, error, warnings, earlier>>

scan_vars ==
    <<text, scan_pc, stripped, command, i, tokens, names>>

vars ==
    <<strict, numbered_lines, pending, start_line, clocks, io_delays,
      exceptions, raw_commands, status, error, warnings, earlier,
      text, scan_pc, stripped, command, i, tokens, names>>

(***************************************************************************)
(* Bounds of the model.                                                    *)
(***************************************************************************)
\* longest text the scanner run draws over ScanAlphabet
MaxLen ==
    4
\* most names inside one generated collection token
MaxNames ==
    3
\* most argument fragments after the command name in a generated command
MaxArgs ==
    3
\* most physical lines one parse session reads
MaxLines ==
    3

\* most parse calls on one input
MaxCalls ==
    2

\* the longest text of a scheduled scanner run
MaxScan ==
    3

(***************************************************************************)
(* Characters and the str methods the parser uses.                         *)
(***************************************************************************)
\* str.isspace for one character
IsSpace(ch) ==
    ch \in {" ", "\t", "\n", "\r", "\f"}

\* str.lstrip(chars): s from its first character outside chars on
lstrip_chars(s, chars) ==
    LET first == CHOOSE k \in 1..(Len(s) + 1) :
                     /\ k = Len(s) + 1 \/ s[k] \notin chars
                     /\ \A j \in 1..(k - 1) : s[j] \in chars
    IN SubSeq(s, first, Len(s))

\* str.rstrip(chars): s up to its last character outside chars
rstrip_chars(s, chars) ==
    LET last == CHOOSE k \in 0..Len(s) :
                    /\ k = 0 \/ s[k] \notin chars
                    /\ \A j \in (k + 1)..Len(s) : s[j] \in chars
    IN SubSeq(s, 1, last)

\* str.strip(chars)
strip_chars(s, chars) ==
    lstrip_chars(rstrip_chars(s, chars), chars)

Whitespace ==
    {" ", "\t", "\n", "\r", "\f"}

\* str.rstrip()
rstrip(s) ==
    rstrip_chars(s, Whitespace)

\* str.strip()
strip(s) ==
    strip_chars(s, Whitespace)

\* str.startswith(prefix)
startswith(s, prefix) ==
    /\ Len(prefix) <= Len(s)
    /\ SubSeq(s, 1, Len(prefix)) = prefix

\* str.endswith(suffix)
endswith(s, suffix) ==
    /\ Len(suffix) <= Len(s)
    /\ SubSeq(s, Len(s) - Len(suffix) + 1, Len(s)) = suffix

\* s[k:] with k the Python index
DropFirst(s, k) ==
    SubSeq(s, k + 1, Len(s))

\* str.split(): the maximal runs of non-whitespace characters, in order
split_ws(s) ==
    LET starts == {k \in 1..Len(s) :
                      ~IsSpace(s[k]) /\ (k = 1 \/ IsSpace(s[k - 1]))}
        start(n) == CHOOSE k \in starts :
                        Cardinality({j \in starts : j < k}) = n - 1
        end(k) == CHOOSE e \in k..Len(s) :
                      /\ e = Len(s) \/ IsSpace(s[e + 1])
                      /\ \A j \in k..e : ~IsSpace(s[j])
    IN [n \in 1..Cardinality(starts) |-> SubSeq(s, start(n), end(start(n)))]

\* str.replace(",", " ")
replace_commas(s) ==
    [k \in 1..Len(s) |-> IF s[k] = "," THEN " " ELSE s[k]]

RECURSIVE JoinWith(_, _)
\* sep.join(parts) for the one-space separator
JoinWith(parts, sep) ==
    IF parts = <<>> THEN <<>>
    ELSE IF Len(parts) = 1 THEN parts[1]
    ELSE parts[1] \o sep \o JoinWith(Tail(parts), sep)

(***************************************************************************)
(* Command names, collection keywords and flags, spelled out.              *)
(***************************************************************************)
W_create_clock ==
    <<"c", "r", "e", "a", "t", "e", "_", "c", "l", "o", "c", "k">>
W_set_input_delay ==
    <<"s", "e", "t", "_", "i", "n", "p",
      "u", "t", "_", "d", "e", "l", "a", "y">>
W_set_output_delay ==
    <<"s", "e", "t", "_", "o", "u", "t", "p",
      "u", "t", "_", "d", "e", "l", "a", "y">>
W_set_false_path ==
    <<"s", "e", "t", "_", "f", "a", "l",
      "s", "e", "_", "p", "a", "t", "h">>
W_set_multicycle_path ==
    <<"s", "e", "t", "_", "m", "u", "l", "t", "i",
      "c", "y", "c", "l", "e", "_", "p", "a", "t", "h">>
W_set_max_delay ==
    <<"s", "e", "t", "_", "m", "a", "x", "_", "d", "e", "l", "a", "y">>
W_set_min_delay ==
    <<"s", "e", "t", "_", "m", "i", "n", "_", "d", "e", "l", "a", "y">>
W_get_ports ==
    <<"g", "e", "t", "_", "p", "o", "r", "t", "s">>
W_get_pins ==
    <<"g", "e", "t", "_", "p", "i", "n", "s">>
W_get_nets ==
    <<"g", "e", "t", "_", "n", "e", "t", "s">>
W_get_cells ==
    <<"g", "e", "t", "_", "c", "e", "l", "l", "s">>
W_get_clocks ==
    <<"g", "e", "t", "_", "c", "l", "o", "c", "k", "s">>
W_get_lib_cells ==
    <<"g", "e", "t", "_", "l", "i", "b", "_", "c", "e", "l", "l", "s">>
F_name ==
    <<"-", "n", "a", "m", "e">>
F_period ==
    <<"-", "p", "e", "r", "i", "o", "d">>
F_waveform ==
    <<"-", "w", "a", "v", "e", "f", "o", "r", "m">>
F_clock ==
    <<"-", "c", "l", "o", "c", "k">>
F_max ==
    <<"-", "m", "a", "x">>
F_min ==
    <<"-", "m", "i", "n">>
F_add_delay ==
    <<"-", "a", "d", "d", "_", "d", "e", "l", "a", "y">>
F_network_latency_included ==
    <<"-", "n", "e", "t", "w", "o", "r", "k", "_", "l", "a", "t",
      "e", "n", "c", "y", "_", "i", "n", "c", "l", "u", "d", "e", "d">>
F_source_latency_included ==
    <<"-", "s", "o", "u", "r", "c", "e", "_", "l", "a", "t", "e",
      "n", "c", "y", "_", "i", "n", "c", "l", "u", "d", "e", "d">>
F_rise ==
    <<"-", "r", "i", "s", "e">>
F_fall ==
    <<"-", "f", "a", "l", "l">>
F_level_sensitive ==
    <<"-", "l", "e", "v", "e", "l", "_", "s",
      "e", "n", "s", "i", "t", "i", "v", "e">>
F_edge_triggered ==
    <<"-", "e", "d", "g", "e", "_", "t",
      "r", "i", "g", "g", "e", "r", "e", "d">>
F_reference_pin ==
    <<"-", "r", "e", "f", "e", "r", "e",
      "n", "c", "e", "_", "p", "i", "n">>
F_from ==
    <<"-", "f", "r", "o", "m">>
F_to ==
    <<"-", "t", "o">>
F_through ==
    <<"-", "t", "h", "r", "o", "u", "g", "h">>
F_setup ==
    <<"-", "s", "e", "t", "u", "p">>
F_hold ==
    <<"-", "h", "o", "l", "d">>
F_datapath_only ==
    <<"-", "d", "a", "t", "a", "p", "a",
      "t", "h", "_", "o", "n", "l", "y">>
W_unnamed_clock ==
    <<"u", "n", "n", "a", "m", "e", "d", "_", "c", "l", "o", "c", "k">>
W_nan ==
    <<"n", "a", "n">>
W_inf ==
    <<"i", "n", "f">>
W_infinity ==
    <<"i", "n", "f", "i", "n", "i", "t", "y">>

(***************************************************************************)
(* Preprocessing: comment stripping.                                       *)
(***************************************************************************)
\* max(0, d - 1)
ClampedDecrement(d) ==
    IF d - 1 > 0 THEN d - 1 ELSE 0

\* the loop variables of _strip_comment on entry; cut is the index the loop
\* returned at (idx + 1 of the code), 0 while it has not returned
strip_comment_entry ==
    [depth_bracket |-> 0, depth_brace |-> 0, in_string |-> FALSE, cut |-> 0]

\* strip_comment_step with the brace depth left out of the test of a "#"
strip_comment_step_brace_blind(st, idx, ch) ==
    IF st.cut # 0 THEN st
    ELSE IF ch = "\"" THEN [st EXCEPT !.in_string = ~@]
    ELSE IF st.in_string THEN st
    ELSE IF ch = "[" THEN [st EXCEPT !.depth_bracket = @ + 1]
    ELSE IF ch = "]" THEN [st EXCEPT !.depth_bracket = ClampedDecrement(@)]
    ELSE IF ch = "#" /\ st.depth_bracket = 0 THEN [st EXCEPT !.cut = idx]
    ELSE st

\* the body of the for loop of _strip_comment at character ch of index idx
strip_comment_step(st, idx, ch) ==
    IF st.cut # 0 THEN st
    ELSE IF ch = "\"" /\ ~st.in_string THEN [st EXCEPT !.in_string = TRUE]
    ELSE IF ch = "\"" /\ st.in_string THEN [st EXCEPT !.in_string = FALSE]
    ELSE IF ~st.in_string
    THEN
      IF ch = "[" THEN [st EXCEPT !.depth_bracket = @ + 1]
      ELSE IF ch = "]" THEN [st EXCEPT !.depth_bracket = ClampedDecrement(@)]
      ELSE IF ch = "{" THEN [st EXCEPT !.depth_brace = @ + 1]
      ELSE IF ch = "}" THEN [st EXCEPT !.depth_brace = ClampedDecrement(@)]
      ELSE IF ch = "#" /\ st.depth_bracket = 0 /\ st.depth_brace = 0
      THEN [st EXCEPT !.cut = idx]
      ELSE st
    ELSE st

RECURSIVE strip_comment_loop(_, _, _, _)
\* the for loop of _strip_comment over line[lo..hi], entered with the loop
\* variables st: the passes over the first half, then those over the second
strip_comment_loop(line, lo, hi, st) ==
    IF lo > hi THEN st
    ELSE IF lo = hi THEN strip_comment_step(st, lo, line[lo])
    ELSE LET mid  == (lo + hi) \div 2
             left == strip_comment_loop(line, lo, mid, st)
         IN IF left.cut # 0 THEN left
            ELSE strip_comment_loop(line, mid + 1, hi, left)

\* _strip_comment
strip_comment(line) ==
    LET st == strip_comment_loop(line, 1, Len(line), strip_comment_entry)
    IN IF st.cut # 0 THEN SubSeq(line, 1, st.cut - 1) ELSE line

(***************************************************************************)
(* Tokenisation.  An inner while loop is run over the indexes from its     *)
(* entry cursor to the end of the command; a pass happens at index k when  *)
(* the loop has not left and its cursor i stands at k.                     *)
(***************************************************************************)
\* ScanGroupStep without the depth count: the first close delimiter ends the
\* group
ScanGroupStep_first_close(st, k, ch, open, close) ==
    IF st.left \/ st.i # k THEN st
    ELSE IF ch = close THEN [st EXCEPT !.i = k + 1, !.left = TRUE]
    ELSE [st EXCEPT !.i = k + 1]

\* a bracket or brace group: the pass of the inner while loop at cursor k
ScanGroupStep(st, k, ch, open, close) ==
    IF st.left \/ st.i # k THEN st
    ELSE IF ch = open THEN [st EXCEPT !.depth = @ + 1, !.i = k + 1]
    ELSE IF ch = close
         THEN IF st.depth - 1 = 0
              THEN [st EXCEPT !.depth = 0, !.i = k + 1, !.left = TRUE]
              ELSE [st EXCEPT !.depth = @ - 1, !.i = k + 1]
    ELSE [st EXCEPT !.i = k + 1]

RECURSIVE ScanGroupLoop(_, _, _, _, _, _)
ScanGroupLoop(cmd, lo, hi, st, open, close) ==
    IF lo > hi THEN st
    ELSE IF lo = hi THEN ScanGroupStep(st, lo, cmd[lo], open, close)
    ELSE LET mid  == (lo + hi) \div 2
             half == ScanGroupLoop(cmd, lo, mid, st, open, close)
         IN IF half.left THEN half
            ELSE ScanGroupLoop(cmd, mid + 1, hi, half, open, close)

\* the inner while loop of a bracket or brace group entered at cursor k with
\* depth 0: the cursor it ends at
ScanGroup(cmd, k, open, close) ==
    ScanGroupLoop(cmd, k, Len(cmd), [i |-> k, depth |-> 0, left |-> FALSE],
                  open, close).i

\* a quoted string: the pass of the inner while loop at cursor k
ScanQuoteStep(st, k, ch, n) ==
    IF st.left \/ st.i # k THEN st
    ELSE IF ch = "\\" /\ k + 1 <= n THEN [st EXCEPT !.i = k + 2]
    ELSE IF ch = "\"" THEN [st EXCEPT !.i = k + 1, !.left = TRUE]
    ELSE [st EXCEPT !.i = k + 1]

RECURSIVE ScanQuoteLoop(_, _, _, _)
ScanQuoteLoop(cmd, lo, hi, st) ==
    IF lo > hi THEN st
    ELSE IF lo = hi THEN ScanQuoteStep(st, lo, cmd[lo], Len(cmd))
    ELSE LET mid  == (lo + hi) \div 2
             half == ScanQuoteLoop(cmd, lo, mid, st)
         IN IF half.left THEN half
            ELSE ScanQuoteLoop(cmd, mid + 1, hi, half)

\* the inner while loop of a quoted string, entered at cursor k after the
\* opening quote: the cursor it ends at
ScanQuote(cmd, k) ==
    ScanQuoteLoop(cmd, k, Len(cmd), [i |-> k, left |-> FALSE]).i

\* a bare word: the pass of the inner while loop at cursor k
ScanBareStep(st, k, ch) ==
    IF st.left \/ st.i # k THEN st
    ELSE IF ~IsSpace(ch) /\ ch \notin {"[", "{", "\""}
    THEN [st EXCEPT !.i = k + 1]
    ELSE [st EXCEPT !.left = TRUE]

RECURSIVE ScanBareLoop(_, _, _, _)
ScanBareLoop(cmd, lo, hi, st) ==
    IF lo > hi THEN st
    ELSE IF lo = hi THEN ScanBareStep(st, lo, cmd[lo])
    ELSE LET mid  == (lo + hi) \div 2
             half == ScanBareLoop(cmd, lo, mid, st)
         IN IF half.left THEN half
            ELSE ScanBareLoop(cmd, mid + 1, hi, half)

\* the inner while loop of a bare word entered at cursor k: the cursor it
\* ends at
ScanBare(cmd, k) ==
    ScanBareLoop(cmd, k, Len(cmd), [i |-> k, left |-> FALSE]).i

\* TokenizeIter that leaves the cursor on a whitespace character
TokenizeIter_space_stays(cmd, k) ==
    LET ch == cmd[k] IN
    IF IsSpace(ch) THEN [i |-> k, appended |-> FALSE, tok |-> <<>>]
    ELSE
      LET end == IF ch = "[" THEN ScanGroup(cmd, k, "[", "]")
                 ELSE IF ch = "{" THEN ScanGroup(cmd, k, "{", "}")
                 ELSE IF ch = "\"" THEN ScanQuote(cmd, k + 1)
                 ELSE ScanBare(cmd, k)
      IN [i |-> end, appended |-> TRUE, tok |-> SubSeq(cmd, k, end - 1)]

\* one iteration of the outer while loop of _tokenize at cursor k:
\* the cursor it leaves and the token it appends (none for whitespace)
TokenizeIter(cmd, k) ==
    LET ch == cmd[k] IN
    IF IsSpace(ch) THEN [i |-> k + 1, appended |-> FALSE, tok |-> <<>>]
    ELSE
      LET end == IF ch = "[" THEN ScanGroup(cmd, k, "[", "]")
                 ELSE IF ch = "{" THEN ScanGroup(cmd, k, "{", "}")
                 ELSE IF ch = "\"" THEN ScanQuote(cmd, k + 1)
                 ELSE ScanBare(cmd, k)
      IN [i |-> end, appended |-> TRUE, tok |-> SubSeq(cmd, k, end - 1)]

\* the final filter of _tokenize: [t for t in tokens if t]
NonEmpty(seq) ==
    SelectSeq(seq, LAMBDA t : t # <<>>)

RECURSIVE tokenize_from(_, _, _)
\* the outer while loop of _tokenize from cursor k on
tokenize_from(cmd, k, toks) ==
    IF k > Len(cmd) THEN NonEmpty(toks)
    ELSE LET it == TokenizeIter(cmd, k)
         IN tokenize_from(cmd, it.i, IF it.appended THEN Append(toks, it.tok) ELSE toks)

\* _tokenize
tokenize(cmd) ==
    tokenize_from(cmd, 1, <<>>)

(***************************************************************************)
(* Tcl collection helpers.                                                 *)
(***************************************************************************)
\* the keyword alternatives of _TCL_COLLECTION_RE
CollectionKeywords ==
    {W_get_ports, W_get_pins, W_get_nets, W_get_cells, W_get_clocks,
     W_get_lib_cells}

\* _TCL_COLLECTION_RE.match(token): whether it matches and group(1).
\* "[", optional whitespace, a keyword, at least one whitespace character,
\* the lazily matched group, optional whitespace, "]" at the end.
CollectionMatch(token) ==
    IF Len(token) < 2 \/ token[1] # "[" \/ token[Len(token)] # "]"
    THEN [matched |-> FALSE, group1 |-> <<>>]
    ELSE
      LET body == lstrip_chars(SubSeq(token, 2, Len(token) - 1), Whitespace)
          kws  == {kw \in CollectionKeywords :
                      /\ startswith(body, kw)
                      /\ Len(body) > Len(kw)
                      /\ IsSpace(body[Len(kw) + 1])}
      IN IF kws = {} THEN [matched |-> FALSE, group1 |-> <<>>]
         ELSE LET kw == CHOOSE k \in kws : TRUE
              IN [matched |-> TRUE,
                  group1  |-> strip(DropFirst(body, Len(kw)))]

\* "".join(current).strip("{}")
ItemOf(current) ==
    strip_chars(current, {"{", "}"})

\* the body of the for loop of _split_tcl_list at character ch
split_tcl_list_step(st, ch) ==
    IF ch = "{"
    THEN [st EXCEPT !.depth = @ + 1, !.current = Append(@, ch)]
    ELSE IF ch = "}"
    THEN [st EXCEPT !.depth = @ - 1, !.current = Append(@, ch)]
    ELSE IF IsSpace(ch) /\ st.depth = 0
    THEN IF st.current # <<>>
         THEN [st EXCEPT !.items = Append(@, ItemOf(st.current)),
                         !.current = <<>>]
         ELSE st
    ELSE [st EXCEPT !.current = Append(@, ch)]

RECURSIVE split_tcl_list_loop(_, _, _, _)
\* the for loop of _split_tcl_list over s[lo..hi], entered with the loop
\* variables st: the passes over the first half, then those over the second
split_tcl_list_loop(s, lo, hi, st) ==
    IF lo > hi THEN st
    ELSE IF lo = hi THEN split_tcl_list_step(st, s[lo])
    ELSE LET mid  == (lo + hi) \div 2
             half == split_tcl_list_loop(s, lo, mid, st)
         IN split_tcl_list_loop(s, mid + 1, hi, half)

\* _split_tcl_list
split_tcl_list(s0) ==
    LET s  == strip(s0)
        st == split_tcl_list_loop(s, 1, Len(s),
                  [items |-> <<>>, current |-> <<>>, depth |-> 0])
    IN NonEmpty(IF st.current # <<>>
                THEN Append(st.items, ItemOf(st.current))
                ELSE st.items)

\* _extract_names
extract_names(token0) ==
    LET token == strip(token0)
        m     == CollectionMatch(token)
    IN IF m.matched THEN split_tcl_list(strip(m.group1))
       ELSE IF startswith(token, <<"{">>) /\ endswith(token, <<"}">>)
       THEN split_tcl_list(SubSeq(token, 2, Len(token) - 1))
       ELSE IF startswith(token, <<"\"">>) /\ endswith(token, <<"\"">>)
       THEN <<SubSeq(token, 2, Len(token) - 1)>>
       ELSE IF token # <<>> THEN <<token>> ELSE <<>>

(***************************************************************************)
(* Numbers.  A float is [kind, val]: kind "num" with val the value in      *)
(* thousandths, "inf" with val the sign, "nan", or "none" for Python's     *)
(* None.  float() is modelled on plain decimal literals (sign, digits,     *)
(* point, digits) and on nan, inf and infinity in lower case; the texts    *)
(* the model draws hold no exponent, underscore or upper-case literal and  *)
(* at most two fractional digits, so values and their halves are exact.    *)
(***************************************************************************)
None ==
    [kind |-> "none", val |-> 0]

NaN ==
    [kind |-> "nan", val |-> 0]

Num(v) ==
    [kind |-> "num", val |-> v]

Inf(sign) ==
    [kind |-> "inf", val |-> sign]

Digits ==
    {"0", "1", "2", "3", "4", "5", "6", "7", "8", "9"}

DigitVal(ch) ==
    CASE ch = "0" -> 0 [] ch = "1" -> 1 [] ch = "2" -> 2 [] ch = "3" -> 3
      [] ch = "4" -> 4 [] ch = "5" -> 5 [] ch = "6" -> 6 [] ch = "7" -> 7
      [] ch = "8" -> 8 [] ch = "9" -> 9

IsDigits(s) ==
    \A k \in 1..Len(s) : s[k] \in Digits

RECURSIVE DigitsVal(_)
\* the value of a digit string
DigitsVal(s) ==
    IF s = <<>> THEN 0
    ELSE 10 * DigitsVal(SubSeq(s, 1, Len(s) - 1)) + DigitVal(s[Len(s)])

\* the fractional digits as thousandths
FracVal(s) ==
    DigitsVal(SubSeq(s \o <<"0", "0", "0">>, 1, 3))

\* the index of the first "." of s, or 0
PointAt(s) ==
    IF \E k \in 1..Len(s) : s[k] = "."
    THEN CHOOSE k \in 1..Len(s) : s[k] = "." /\ \A j \in 1..(k - 1) : s[j] # "."
    ELSE 0

\* float(s) for an unsigned body
float_unsigned(body) ==
    IF body \in {W_inf, W_infinity} THEN [ok |-> TRUE, f |-> Inf(1)]
    ELSE IF body = W_nan THEN [ok |-> TRUE, f |-> NaN]
    ELSE
      LET p     == PointAt(body)
          whole == IF p = 0 THEN body ELSE SubSeq(body, 1, p - 1)
          frac  == IF p = 0 THEN <<>> ELSE SubSeq(body, p + 1, Len(body))
      IN IF IsDigits(whole) /\ IsDigits(frac) /\ Len(whole) + Len(frac) > 0
         THEN [ok |-> TRUE, f |-> Num(1000 * DigitsVal(whole) + FracVal(frac))]
         ELSE [ok |-> FALSE, f |-> None]

\* -x
Negate(f) ==
    IF f.kind \in {"num", "inf"} THEN [f EXCEPT !.val = 0 - f.val] ELSE f

\* float(s): ok is FALSE where Python raises ValueError
float(s0) ==
    LET s == strip(s0) IN
    IF s # <<>> /\ Head(s) \in {"-", "+"}
    THEN LET r == float_unsigned(Tail(s))
         IN IF r.ok /\ Head(s) = "-" THEN [ok |-> TRUE, f |-> Negate(r.f)] ELSE r
    ELSE float_unsigned(s)

\* x <= 0
LeqZero(f) ==
    \/ f.kind = "num" /\ f.val <= 0
    \/ f.kind = "inf" /\ f.val < 0

\* x > 0
GtZero(f) ==
    \/ f.kind = "num" /\ f.val > 0
    \/ f.kind = "inf" /\ f.val > 0

\* x / 2.0
Half(f) ==
    IF f.kind = "num" THEN Num(f.val \div 2) ELSE f

\* 0.0
Zero ==
    Num(0)

(***************************************************************************)
(* Error handling.                                                         *)
(***************************************************************************)
NoError ==
    [line_num |-> 0, line_text |-> <<>>, message |-> ""]

\* the cut of the offending text in a warning: line_text[:120]
LogCut ==
    120

\* the outcome of a parser that raised nothing and reported nothing
Quiet(records) ==
    [records |-> records, raised |-> "", error |-> NoError, warnings |-> <<>>]

\* an outcome with the warnings reported earlier in the same command
WithWarnings(warns, outcome) ==
    [outcome EXCEPT !.warnings = warns \o outcome.warnings]

\* handle_error that logs and returns in strict mode as well
handle_error_never_raises(strict_, line_num, line_text, message) ==
    [records |-> <<>>, raised |-> "", error |-> NoError,
     warnings |-> <<[line_num |-> line_num, message |-> message,
                     line_text |-> line_text]>>]

\* _handle_error: strict raises ParseError, lenient logs a warning and
\* returns; either way the caller's command yields no record
handle_error(strict_, line_num, line_text, message) ==
    IF strict_
    THEN [records |-> <<>>, raised |-> "ParseError",
          error |-> [line_num |-> line_num, line_text |-> line_text,
                     message |-> message],
          warnings |-> <<>>]
    ELSE [records |-> <<>>, raised |-> "", error |-> NoError,
          warnings |-> <<[line_num |-> line_num, message |-> message,
                          line_text |-> SubSeq(line_text, 1,
                              IF Len(line_text) < LogCut THEN Len(line_text)
                              ELSE LogCut)]>>]

(***************************************************************************)
(* Data models.                                                            *)
(***************************************************************************)
\* ClockConstraint.__post_init__: the ValueError message, or "" when valid
ClockConstraint_post_init(period, waveform) ==
    IF LeqZero(period) THEN "period must be > 0"
    ELSE IF waveform # <<>> /\ Len(waveform) # 2
    THEN "waveform must have exactly 2 edges"
    ELSE ""

ClockConstraint(name, period, waveform, source) ==
    [name |-> name, period |-> period, waveform |-> waveform, source |-> source]

\* IODelay; its __post_init__ accepts both delay types the parser passes
IODelay(pin, clock, delay_value, delay_type, min_delay, max_delay) ==
    [pin |-> pin, clock |-> clock, delay_value |-> delay_value,
     delay_type |-> delay_type, min_delay |-> min_delay, max_delay |-> max_delay]

\* TimingException; its __post_init__ accepts the four mapped types
TimingException(exception_type, from_list, to_list, value) ==
    [exception_type |-> exception_type, from_list |-> from_list,
     to_list |-> to_list, value |-> value]

(***************************************************************************)
(* Float-list helper.                                                      *)
(***************************************************************************)
RECURSIVE float_list_from(_, _, _, _, _)
\* the for loop of _parse_float_list over the remaining parts
float_list_from(parts, result, strict_, line_num, raw) ==
    IF parts = <<>> THEN Quiet(result)
    ELSE LET r == float(Head(parts))
         IN IF r.ok
            THEN float_list_from(Tail(parts), Append(result, r.f), strict_, line_num, raw)
            ELSE handle_error(strict_, line_num, raw, "Non-numeric value in float list")

\* _parse_float_list: records holds the floats
parse_float_list(token, strict_, line_num, raw) ==
    float_list_from(
        split_ws(replace_commas(strip_chars(strip(token), {"{", "}"}))),
        <<>>, strict_, line_num, raw)

(***************************************************************************)
(* Command parsers.  Each returns an outcome: the records to append, the   *)
(* exception raised ("" for none) with the ParseError's fields, and the    *)
(* warnings logged.  An Optional string is [none, val].                    *)
(***************************************************************************)
NoneStr ==
    [none |-> TRUE, val |-> <<>>]

Some(s) ==
    [none |-> FALSE, val |-> s]

\* "x or default" for an Optional string
OrElse(opt, default) ==
    IF opt.none \/ opt.val = <<>> THEN default ELSE opt.val

IsFlagLike(tok) ==
    startswith(tok, <<"-">>)

\* create_clock_finish with the default waveform's falling edge at the period
create_clock_finish_full_period(name, period, waveform, source, strict_, line_num, raw) ==
    IF period = None
    THEN handle_error(strict_, line_num, raw, "create_clock missing required -period")
    ELSE IF ClockConstraint_post_init(period, waveform) # ""
    THEN handle_error(strict_, line_num, raw,
                      ClockConstraint_post_init(period, waveform))
    ELSE Quiet(<<ClockConstraint(
                    IF name.none THEN OrElse(source, W_unnamed_clock) ELSE name.val,
                    period,
                    IF waveform = <<>> THEN <<Zero, period>> ELSE waveform,
                    OrElse(source, <<>>))>>)

\* create_clock_finish with a missing period reported and a clock of period
\* zero appended all the same
create_clock_finish_keeps_clock(name, period, waveform, source, strict_, line_num, raw) ==
    IF period = None
    THEN [handle_error(strict_, line_num, raw,
                       "create_clock missing required -period")
          EXCEPT !.records = <<ClockConstraint(OrElse(source, W_unnamed_clock),
                                               Zero, <<Zero, Zero>>,
                                               OrElse(source, <<>>))>>]
    ELSE Quiet(<<ClockConstraint(
                    IF name.none THEN OrElse(source, W_unnamed_clock) ELSE name.val,
                    period,
                    IF waveform = <<>> THEN <<Zero, Half(period)>> ELSE waveform,
                    OrElse(source, <<>>))>>)

\* the end of _parse_create_clock, after the token loop
create_clock_finish(name, period, waveform, source, strict_, line_num, raw) ==
    IF period = None
    THEN handle_error(strict_, line_num, raw, "create_clock missing required -period")
    ELSE
      LET name1     == IF name.none THEN OrElse(source, W_unnamed_clock) ELSE name.val
          waveform1 == IF waveform = <<>> THEN <<Zero, Half(period)>> ELSE waveform
          invalid   == ClockConstraint_post_init(period, waveform1)
      IN IF invalid = ""
         THEN Quiet(<<ClockConstraint(name1, period, waveform1, OrElse(source, <<>>))>>)
         ELSE handle_error(strict_, line_num, raw, invalid)

\* how far an unrecognised flag of create_clock moves the cursor
create_clock_skip(toks, k) ==
    IF k + 1 <= Len(toks) /\ ~IsFlagLike(toks[k + 1]) THEN 2 ELSE 1

RECURSIVE create_clock_loop(_, _, _, _, _, _, _, _, _, _)
\* the token loop of _parse_create_clock from cursor k on
create_clock_loop(toks, k, name, period, waveform, source, warns, strict_, line_num, raw) ==
    IF k > Len(toks)
    THEN WithWarnings(warns,
             create_clock_finish(name, period, waveform, source,
                                 strict_, line_num, raw))
    ELSE
      LET tok  == toks[k]
          more == k + 1 <= Len(toks)
      IN
      IF tok = F_name /\ more
      THEN create_clock_loop(toks, k + 2, Some(strip_chars(toks[k + 1], {"\""})),
               period, waveform, source, warns, strict_, line_num, raw)
      ELSE IF tok = F_period /\ more
      THEN LET r == float(toks[k + 1])
           IN IF r.ok
              THEN create_clock_loop(toks, k + 2, name, r.f, waveform, source,
                       warns, strict_, line_num, raw)
              ELSE WithWarnings(warns,
                       handle_error(strict_, line_num, raw, "Invalid -period"))
      ELSE IF tok = F_waveform /\ more
      THEN LET w == parse_float_list(toks[k + 1], strict_, line_num, raw)
           IN IF w.raised # ""
              THEN WithWarnings(warns, w)
              ELSE create_clock_loop(toks, k + 2, name, period, w.records, source,
                       warns \o w.warnings, strict_, line_num, raw)
      ELSE IF IsFlagLike(tok)
      THEN create_clock_loop(toks, k + create_clock_skip(toks, k), name, period,
               waveform, source, warns, strict_, line_num, raw)
      ELSE LET found == extract_names(tok)
           IN create_clock_loop(toks, k + 1, name, period, waveform,
                  IF found # <<>> THEN Some(found[1]) ELSE source,
                  warns, strict_, line_num, raw)

\* _parse_create_clock
parse_create_clock(toks, strict_, line_num, raw) ==
    create_clock_loop(toks, 2, NoneStr, None, <<>>, NoneStr, <<>>,
                      strict_, line_num, raw)

\* _bool_flags of _parse_io_delay
IoBoolFlags ==
    {F_add_delay, F_network_latency_included, F_source_latency_included,
     F_rise, F_fall, F_level_sensitive, F_edge_triggered}

\* the end of _parse_io_delay, after the token loop
io_delay_finish(cmd_name, clock, delay_value, is_min, is_max, pins, strict_, line_num, raw) ==
    IF delay_value = None
    THEN handle_error(strict_, line_num, raw, "missing delay value")
    ELSE Quiet([k \in 1..Len(pins) |->
                   IODelay(pins[k], clock, delay_value,
                           IF cmd_name = W_set_input_delay THEN "input" ELSE "output",
                           is_min, is_max)])

\* how far an unrecognised flag of _parse_io_delay moves the cursor
io_delay_skip(toks, k) ==
    2

RECURSIVE io_delay_loop(_, _, _, _, _, _, _, _, _, _)
\* the token loop of _parse_io_delay from cursor k on
io_delay_loop(toks, k, clock, delay_value, is_min, is_max, pins, strict_, line_num, raw) ==
    IF k > Len(toks)
    THEN io_delay_finish(toks[1], clock, delay_value, is_min, is_max, pins,
                         strict_, line_num, raw)
    ELSE
      LET tok == toks[k] IN
      IF tok = F_clock /\ k + 1 <= Len(toks)
      THEN LET found == extract_names(toks[k + 1])
           IN io_delay_loop(toks, k + 2, IF found # <<>> THEN found[1] ELSE <<>>,
                  delay_value, is_min, is_max, pins, strict_, line_num, raw)
      ELSE IF tok = F_max
      THEN io_delay_loop(toks, k + 1, clock, delay_value, is_min, TRUE, pins,
               strict_, line_num, raw)
      ELSE IF tok = F_min
      THEN io_delay_loop(toks, k + 1, clock, delay_value, TRUE, is_max, pins,
               strict_, line_num, raw)
      ELSE IF tok \in IoBoolFlags
      THEN io_delay_loop(toks, k + 1, clock, delay_value, is_min, is_max, pins,
               strict_, line_num, raw)
      ELSE IF tok = F_reference_pin
      THEN io_delay_loop(toks, k + 2, clock, delay_value, is_min, is_max, pins,
               strict_, line_num, raw)
      ELSE IF startswith(tok, <<"[">>) \/ startswith(tok, <<"{">>)
      THEN io_delay_loop(toks, k + 1, clock, delay_value, is_min, is_max,
               pins \o extract_names(tok), strict_, line_num, raw)
      ELSE IF IsFlagLike(tok)
      THEN io_delay_loop(toks, k + io_delay_skip(toks, k), clock, delay_value,
               is_min, is_max, pins, strict_, line_num, raw)
      ELSE LET r == float(tok)
           IN IF r.ok
              THEN io_delay_loop(toks, k + 1, clock, r.f, is_min, is_max, pins,
                       strict_, line_num, raw)
              ELSE io_delay_loop(toks, k + 1, clock, delay_value, is_min, is_max,
                       pins \o extract_names(tok), strict_, line_num, raw)

\* _parse_io_delay
parse_io_delay(toks, strict_, line_num, raw) ==
    io_delay_loop(toks, 2, <<>>, None, FALSE, FALSE, <<>>, strict_, line_num, raw)

\* _EXCEPTION_TYPE_MAP
ExceptionType(cmd_name) ==
    CASE cmd_name = W_set_false_path      -> "false_path"
      [] cmd_name = W_set_multicycle_path -> "multicycle_path"
      [] cmd_name = W_set_max_delay       -> "max_delay"
      [] cmd_name = W_set_min_delay       -> "min_delay"

\* _bool_flags of _parse_timing_exception
ExceptionBoolFlags ==
    {F_setup, F_hold, F_rise, F_fall, F_datapath_only}

\* how far an unrecognised flag of _parse_timing_exception moves the cursor
timing_exception_skip(toks, k) ==
    2

\* a bare positional token of a timing exception: float(tok), then
\* int(raw_val) if raw_val == int(raw_val) else raw_val.  int() raises
\* ValueError on nan (caught with float's) and OverflowError on inf (not caught)
exception_value(tok) ==
    LET r == float(tok) IN
    IF ~r.ok \/ r.f.kind = "nan" THEN [raises |-> "ValueError", value |-> None]
    ELSE IF r.f.kind = "inf" THEN [raises |-> "OverflowError", value |-> None]
    ELSE [raises |-> "",
          value  |-> IF r.f.val % 1000 = 0
                     THEN [kind |-> "int", val |-> r.f.val]
                     ELSE r.f]

RECURSIVE timing_exception_loop(_, _, _, _, _, _, _, _)
\* the token loop of _parse_timing_exception from cursor k on
timing_exception_loop(toks, k, from_list, to_list, value, strict_, line_num, raw) ==
    IF k > Len(toks)
    THEN Quiet(<<TimingException(ExceptionType(toks[1]), from_list, to_list, value)>>)
    ELSE
      LET tok  == toks[k]
          more == k + 1 <= Len(toks)
      IN
      IF tok = F_from /\ more
      THEN timing_exception_loop(toks, k + 2, from_list \o extract_names(toks[k + 1]),
               to_list, value, strict_, line_num, raw)
      ELSE IF tok = F_to /\ more
      THEN timing_exception_loop(toks, k + 2, from_list,
               to_list \o extract_names(toks[k + 1]), value, strict_, line_num, raw)
      ELSE IF tok = F_through /\ more
      THEN timing_exception_loop(toks, k + 2, from_list, to_list, value,
               strict_, line_num, raw)
      ELSE IF tok \in ExceptionBoolFlags
      THEN timing_exception_loop(toks, k + 1, from_list, to_list, value,
               strict_, line_num, raw)
      ELSE IF IsFlagLike(tok)
      THEN timing_exception_loop(toks, k + timing_exception_skip(toks, k),
               from_list, to_list, value, strict_, line_num, raw)
      ELSE LET v == exception_value(tok)
           IN IF v.raises = "ValueError"
              THEN handle_error(strict_, line_num, raw, "Unexpected token")
              ELSE IF v.raises = "OverflowError"
              THEN [records |-> <<>>, raised |-> "OverflowError",
                    error |-> NoError, warnings |-> <<>>]
              ELSE timing_exception_loop(toks, k + 1, from_list, to_list, v.value,
                       strict_, line_num, raw)

\* _parse_timing_exception
parse_timing_exception(toks, strict_, line_num, raw) ==
    timing_exception_loop(toks, 2, <<>>, <<>>, None, strict_, line_num, raw)

(***************************************************************************)
(* Command dispatch.                                                       *)
(***************************************************************************)
\* _IO_DELAY_CMDS
IO_DELAY_CMDS ==
    {W_set_input_delay, W_set_output_delay}

\* _EXCEPTION_CMDS
EXCEPTION_CMDS ==
    {W_set_false_path, W_set_multicycle_path, W_set_max_delay, W_set_min_delay}

\* RawEntry that keeps the command name only
RawEntry_name_only(cmd) ==
    tokenize(cmd)[1]

\* what the dispatcher stores for an unrecognised command
RawEntry(cmd) ==
    cmd

\* SDCConstraintSet as one value
ConstraintSet(c, d, e, r) ==
    [clocks |-> c, io_delays |-> d, exceptions |-> e, raw_commands |-> r]

EmptySet ==
    ConstraintSet(<<>>, <<>>, <<>>, <<>>)

\* the collection of the constraint set the records of a command go to
Collection(cmd_name) ==
    IF cmd_name = W_create_clock THEN "clocks"
    ELSE IF cmd_name \in IO_DELAY_CMDS THEN "io_delays"
    ELSE IF cmd_name \in EXCEPTION_CMDS THEN "exceptions"
    ELSE "raw_commands"

\* Appended that puts the new records in front of the collection
Appended_in_front(result, collection, out) ==
    [result   |-> IF out.raised # "" THEN result
                  ELSE [result EXCEPT ![collection] = out.records \o @],
     raised   |-> out.raised,
     error    |-> out.error,
     warnings |-> out.warnings]

\* the append/extend of _dispatch_command with the outcome of the command's
\* parser.  A raise leaves the set as it was.
Appended(result, collection, out) ==
    [result   |-> IF out.raised # "" THEN result
                  ELSE [result EXCEPT ![collection] = @ \o out.records],
     raised   |-> out.raised,
     error    |-> out.error,
     warnings |-> out.warnings]

\* _dispatch_command after tokens = self._tokenize(command)
dispatch_tokens(strict_, line_num, cmd, toks, result) ==
    IF toks = <<>>
    THEN [result |-> result, raised |-> "", error |-> NoError, warnings |-> <<>>]
    ELSE Appended(result, Collection(toks[1]),
             IF toks[1] = W_create_clock
             THEN parse_create_clock(toks, strict_, line_num, cmd)
             ELSE IF toks[1] \in IO_DELAY_CMDS
             THEN parse_io_delay(toks, strict_, line_num, cmd)
             ELSE IF toks[1] \in EXCEPTION_CMDS
             THEN parse_timing_exception(toks, strict_, line_num, cmd)
             ELSE Quiet(<<RawEntry(cmd)>>))

\* _dispatch_command: the constraint set after the command, the exception
\* raised and the warnings logged
dispatch_command(strict_, line_num, cmd, result) ==
    dispatch_tokens(strict_, line_num, cmd, tokenize(cmd), result)

(***************************************************************************)
(* Preprocessing and the parse loop.  The loop variables of _iter_commands *)
(* and _parse_from_iter are one record: pending, start_line, the           *)
(* constraint set under construction, and how the call stands (status,     *)
(* error, warnings).                                                       *)
(***************************************************************************)
\* raw.rstrip("\r\n")
rstrip_eol(raw) ==
    rstrip_chars(raw, {"\r", "\n"})

\* line.rstrip().endswith("\\")
IsContinued(line) ==
    endswith(rstrip(line), <<"\\">>)

\* NextPending without the space inserted at the join
NextPending_no_space(pend, line) ==
    pend \o SubSeq(rstrip(line), 1, Len(rstrip(line)) - 1)

\* pending += line.rstrip()[:-1] + " "
NextPending(pend, line) ==
    pend \o SubSeq(rstrip(line), 1, Len(rstrip(line)) - 1) \o <<" ">>

\* if not pending: start_line = line_num
NextStartLine(pend, start, line_num) ==
    IF pend = <<>> THEN line_num ELSE start

\* full = self._strip_comment(pending + line).strip()
LogicalCommand(pend, line) ==
    strip(strip_comment(pend \o line))

\* the loop variables on entry to _parse_from_iter
Entry ==
    [pending |-> <<>>, start_line |-> 1, result |-> EmptySet,
     status |-> "parsing", error |-> NoError, warnings |-> <<>>]

\* the dispatch outcome when _iter_commands yields nothing
NothingYielded(result) ==
    [result |-> result, raised |-> "", error |-> NoError, warnings |-> <<>>]

\* the loop variables after the dispatch outcome d; an exception leaves
\* _parse_from_iter, the end of the input makes it return
Dispatched(st, d, final) ==
    [st EXCEPT !.result   = d.result,
               !.warnings = @ \o d.warnings,
               !.error    = IF d.raised = "ParseError" THEN d.error ELSE @,
               !.status   = IF d.raised # "" THEN d.raised
                            ELSE IF final THEN "returned" ELSE "parsing"]

\* the body of the for loop of _parse_from_iter on the command full that
\* _iter_commands yields (none when full is empty)
Yield(st, strict_, full, final) ==
    Dispatched(st,
               IF full # <<>>
               THEN dispatch_command(strict_, st.start_line, full, st.result)
               ELSE NothingYielded(st.result),
               final)

\* the pass of the for loop of _iter_commands over line, start_line updated
IterLine(st, strict_, line, start) ==
    IF IsContinued(line)
    THEN [st EXCEPT !.start_line = start,
                    !.pending = NextPending(st.pending, line)]
    ELSE Yield([st EXCEPT !.start_line = start, !.pending = <<>>],
               strict_, LogicalCommand(st.pending, line), FALSE)

\* one pass of the for loop of _iter_commands over the physical line raw,
\* numbered line_num, with the dispatch of the command it yields
iter_commands_pass(st, strict_, raw, line_num) ==
    IterLine(st, strict_, rstrip_eol(raw),
             NextStartLine(st.pending, st.start_line, line_num))

\* the input is exhausted: the tail of _iter_commands (an unterminated
\* continuation is still yielded) and the return of _parse_from_iter
iter_commands_end(st, strict_) ==
    Yield(st, strict_,
          IF strip(st.pending) # <<>> THEN LogicalCommand(st.pending, <<>>)
          ELSE <<>>,
          TRUE)

RECURSIVE parse_lines(_, _, _, _)
\* the for loop of _parse_from_iter from physical line k on
parse_lines(lines, k, st, strict_) ==
    IF st.status # "parsing" \/ k > Len(lines) THEN st
    ELSE parse_lines(lines, k + 1, iter_commands_pass(st, strict_, lines[k], k),
                     strict_)

\* the for loop of _parse_from_iter is over: the tail of _iter_commands
\* unless an exception has left the call
Exhausted(st, strict_) ==
    IF st.status = "parsing" THEN iter_commands_end(st, strict_) ELSE st

\* the whole call: enumerate(lines, start=1) through _parse_from_iter
parse_from_iter(lines, strict_) ==
    Exhausted(parse_lines(lines, 1, Entry, strict_), strict_)

\* the loop variables as the state holds them
Current ==
    [pending |-> pending, start_line |-> start_line,
     result |-> ConstraintSet(clocks, io_delays, exceptions, raw_commands),
     status |-> status, error |-> error, warnings |-> warnings]

\* NewAccumulator that hands out the lists of the set returned before
NewAccumulator_shared(prev) ==
    [result |-> prev, alias |-> TRUE]

\* result = SDCConstraintSet(): every list is built anew by its
\* default_factory, so the set is empty and no earlier set is the same object
NewAccumulator(prev) ==
    [result |-> EmptySet, alias |-> FALSE]

\* the earlier outcomes as their holder sees them once the accumulator is
\* result: a set that is the same object as the accumulator follows it
Seen(outcomes, result) ==
    [k \in 1..Len(outcomes) |->
        IF outcomes[k].alias THEN [outcomes[k] EXCEPT !.result = result]
        ELSE outcomes[k]]

\* the state takes the loop variables st
Becomes(st) ==
    /\ earlier' = Seen(earlier, st.result)
    /\ pending' = st.pending
    /\ start_line' = st.start_line
    /\ clocks' = st.result.clocks
    /\ io_delays' = st.result.io_delays
    /\ exceptions' = st.result.exceptions
    /\ raw_commands' = st.result.raw_commands
    /\ status' = st.status
    /\ error' = st.error
    /\ warnings' = st.warnings

\* the input iterator hands over the next physical line
ReadLine(raw) ==
    /\ status = "parsing"
    /\ numbered_lines' = Append(numbered_lines, raw)
    /\ Becomes(iter_commands_pass(Current, strict, raw, Len(numbered_lines) + 1))
    /\ UNCHANGED <<strict, text, scan_pc, stripped, command, i, tokens, names>>

\* the input iterator is exhausted
EndOfInput ==
    /\ status = "parsing"
    /\ Becomes(iter_commands_end(Current, strict))
    /\ UNCHANGED <<strict, numbered_lines,
                   text, scan_pc, stripped, command, i, tokens, names>>

\* the outcome of the call that has ended, as its caller holds it
Outcome(alias) ==
    [lines |-> numbered_lines, status |-> status, error |-> error,
     result |-> ConstraintSet(clocks, io_delays, exceptions, raw_commands),
     alias |-> alias]

\* the state is the entry of a parse call that accumulates into acc
Entered(acc) ==
    /\ earlier' = Append(earlier, Outcome(acc.alias))
    /\ numbered_lines' = <<>>
    /\ pending' = Entry.pending
    /\ start_line' = Entry.start_line
    /\ clocks' = acc.result.clocks
    /\ io_delays' = acc.result.io_delays
    /\ exceptions' = acc.result.exceptions
    /\ raw_commands' = acc.result.raw_commands
    /\ status' = Entry.status
    /\ error' = Entry.error
    /\ warnings' = Entry.warnings

\* parse_string is called again on the same input, on the same parser or on
\* another of the same mode
ParseAgain ==
    /\ status # "parsing"
    /\ Len(earlier) < MaxCalls - 1
    /\ Entered(NewAccumulator(ConstraintSet(clocks, io_delays, exceptions, raw_commands)))
    /\ UNCHANGED <<strict, text, scan_pc, stripped, command, i, tokens, names>>

\* the later call reads the next physical line of the same input
ReadAgain ==
    /\ earlier # <<>>
    /\ Len(numbered_lines) < Len(earlier[1].lines)
    /\ ReadLine(earlier[1].lines[Len(numbered_lines) + 1])

\* the later call has read the whole input
EndAgain ==
    /\ earlier # <<>>
    /\ Len(numbered_lines) = Len(earlier[1].lines)
    /\ EndOfInput


(***************************************************************************)
(* The scanner run: one raw line through comment stripping, trimming, the  *)
(* tokenizer loop (one iteration a step) and the collection resolver.      *)
(***************************************************************************)
\* the line is stripped of its comment and trimmed; an empty one is dropped
ScanStrip ==
    /\ scan_pc = "strip"
    /\ stripped' = strip_comment(text)
    /\ command' = strip(strip_comment(text))
    /\ scan_pc' = IF strip(strip_comment(text)) # <<>> THEN "tokenize" ELSE "dropped"
    /\ UNCHANGED <<text, i, tokens, names>>
    /\ UNCHANGED parser_vars

\* one iteration of the outer while loop of _tokenize
ScanTokenize ==
    /\ scan_pc = "tokenize"
    /\ i <= Len(command)
    /\ LET it == TokenizeIter(command, i)
       IN /\ i' = it.i
          /\ tokens' = IF it.appended THEN Append(tokens, it.tok) ELSE tokens
    /\ UNCHANGED <<text, scan_pc, stripped, command, names>>
    /\ UNCHANGED parser_vars

\* the loop of _tokenize ends and the non-empty tokens are returned
ScanTokenized ==
    /\ scan_pc = "tokenize"
    /\ i > Len(command)
    /\ tokens' = NonEmpty(tokens)
    /\ scan_pc' = "resolve"
    /\ UNCHANGED <<text, stripped, command, i, names>>
    /\ UNCHANGED parser_vars

\* every token is resolved to its names
ScanResolve ==
    /\ scan_pc = "resolve"
    /\ names' = [k \in 1..Len(tokens) |-> extract_names(tokens[k])]
    /\ scan_pc' = "done"
    /\ UNCHANGED <<text, stripped, command, i, tokens>>
    /\ UNCHANGED parser_vars

(***************************************************************************)
(* Inputs.                                                                 *)
(***************************************************************************)
Sp ==
    <<" ">>

EOL ==
    <<"\n">>

\* words joined by single spaces
Line(parts) ==
    JoinWith(parts, Sp)

\* [keyword inner]
Coll(kw, inner) ==
    <<"[">> \o kw \o Sp \o inner \o <<"]">>

\* {n1 n2 ... nk}
Braced(ns) ==
    <<"{">> \o JoinWith(ns, Sp) \o <<"}">>

\* every sequence over pool of at most n elements
SeqsUpTo(pool, n) ==
    UNION {[1..m -> pool] : m \in 0..n}

\* the characters the scanner run draws its short texts over
ScanAlphabet ==
    {"a", " ", "[", "]", "{", "}", "\"", "#", "\\"}

\* the names the generated collection tokens hold
NamePool ==
    {<<"a">>, <<"b">>, <<"c", "k">>}

NameLists ==
    SeqsUpTo(NamePool, MaxNames)

\* collection tokens [keyword {n1 ... nk}] and [keyword n1 ... nk]
CollectionTexts ==
    {Coll(kw, Braced(ns)) : kw \in CollectionKeywords, ns \in NameLists}
    \cup {Coll(kw, JoinWith(ns, Sp)) : kw \in CollectionKeywords, ns \in NameLists}

\* the comment examples: a "#" inside a group and one after a closed command
CommentTexts ==
    {Coll(W_get_ports, <<"{", "a", "#", "b", "}">>),
     Coll(W_get_ports, <<"a">>) \o <<" ", "#", "b">>}

ScanTexts ==
    SeqsUpTo(ScanAlphabet, MaxLen) \cup CollectionTexts \cup CommentTexts

\* argument fragments of generated create_clock commands
ClockArgs ==
    {F_period, <<"5">>, <<"0">>, <<"-", "2">>, W_nan,
     Line(<<F_name, <<"k">>>>),
     Line(<<F_waveform, <<"{", "0", " ", "2", "}">>>>),
     Line(<<F_waveform, <<"{", "0", " ", "x", "}">>>>),
     <<"-", "f", "o", "o">>,
     Coll(W_get_ports, <<"c">>)}

\* argument fragments of generated set_input_delay / set_output_delay commands
IoArgs ==
    {Line(<<F_clock, <<"k">>>>), F_max, F_min, <<"-", "f", "o", "o">>,
     <<"2", ".", "5">>, <<"3">>, <<"-", "0", ".", "5">>, <<"k">>,
     Coll(W_get_ports, Braced(<<<<"a">>, <<"b">>>>)),
     Coll(W_get_pins, <<"a", " ", "b">>)}

\* argument fragments of generated timing exception commands
ExceptionArgs ==
    {Line(<<F_from, <<"a">>>>),
     Line(<<F_to, Coll(W_get_clocks, Braced(<<<<"a">>, <<"b">>>>))>>),
     F_through, F_setup, <<"-", "f", "o", "o">>,
     <<"2">>, <<"1", ".", "5">>, W_inf}

W_set_load ==
    <<"s", "e", "t", "_", "l", "o", "a", "d">>

\* argument fragments of generated unrecognised commands
OtherArgs ==
    {<<"5">>, <<"c">>, F_period}

Commands(cmd_names, pool) ==
    {Line(<<n>> \o args) \o EOL : n \in cmd_names, args \in SeqsUpTo(pool, MaxArgs)}

\* the single-command inputs
CmdPool ==
    Commands({W_create_clock}, ClockArgs)
    \cup Commands(IO_DELAY_CMDS, IoArgs)
    \cup Commands(EXCEPTION_CMDS, ExceptionArgs)
    \cup Commands({W_set_load}, OtherArgs)

PortC ==
    Coll(W_get_ports, <<"c">>)

\* the physical lines a parse session draws from
SessionLines ==
    {Line(<<W_create_clock, F_period, <<"5">>, PortC>>) \o EOL,
     Line(<<W_create_clock, F_name, <<"k">>, PortC>>) \o EOL,
     Line(<<W_create_clock, F_period, <<"0">>, <<"c">>>>) \o EOL,
     Line(<<W_create_clock, F_period, <<"5">>, <<"\\">>>>) \o EOL,
     Line(<<W_create_clock, <<"\\">>, <<>>>>) \o EOL,
     Line(<<F_name, <<"k">>, PortC>>) \o EOL,
     Line(<<W_set_input_delay, F_max, <<"2", ".", "5">>,
            Coll(W_get_ports, <<"a", " ", "b">>)>>) \o EOL,
     Line(<<W_set_output_delay, F_clock, <<"k">>, Coll(W_get_ports, <<"a">>)>>) \o EOL,
     Line(<<W_set_false_path, F_from, <<"a">>, F_to, <<"b">>>>) \o EOL,
     Line(<<W_set_max_delay, <<"x">>>>) \o EOL,
     Line(<<W_set_load, <<"5">>, <<"c">>, <<"#">>, <<"n">>>>) \o <<"\r", "\n">>,
     Line(<<<<"#">>, W_create_clock>>) \o EOL}

(***************************************************************************)
(* Specifications.                                                         *)
(***************************************************************************)
ScanIdle ==
    /\ text = <<>>
    /\ scan_pc = "idle"
    /\ stripped = <<>>
    /\ command = <<>>
    /\ i = 1
    /\ tokens = <<>>
    /\ names = <<>>

ParserStart ==
    /\ numbered_lines = <<>>
    /\ pending = <<>>
    /\ start_line = 1
    /\ clocks = <<>>
    /\ io_delays = <<>>
    /\ exceptions = <<>>
    /\ raw_commands = <<>>
    /\ status = "parsing"
    /\ error = NoError
    /\ warnings = <<>>
    /\ earlier = <<>>

\* a parser of either mode at the start of a parse call
Init ==
    /\ strict \in BOOLEAN
    /\ ParserStart
    /\ ScanIdle

\* a parse session over physical lines
Next ==
    \/ \E raw \in SessionLines :
          /\ Len(numbered_lines) < MaxLines
          /\ ReadLine(raw)
    \/ EndOfInput

Spec ==
    Init /\ [][Next]_vars

\* a parse of one generated command
NextCmd ==
    \/ \E raw \in CmdPool :
          /\ numbered_lines = <<>>
          /\ ReadLine(raw)
    \/ EndOfInput

SpecCmd ==
    Init /\ [][NextCmd]_vars

\* parse calls on one input, one after the other
NextTwice ==
    \/ earlier = <<>> /\ Next
    \/ ParseAgain
    \/ ReadAgain
    \/ EndAgain

SpecTwice ==
    Init /\ [][NextTwice]_vars

\* a scanner run over one text
InitScan ==
    /\ strict = FALSE
    /\ ParserStart
    /\ text \in ScanTexts
    /\ scan_pc = "strip"
    /\ stripped = <<>>
    /\ command = <<>>
    /\ i = 1
    /\ tokens = <<>>
    /\ names = <<>>

NextScan ==
    \/ ScanStrip
    \/ ScanTokenize
    \/ ScanTokenized
    \/ ScanResolve

SpecScan ==
    InitScan /\ [][NextScan]_vars

\* the caller builds the text, a character at a time
ScanType ==
    /\ scan_pc = "idle"
    /\ Len(text) < MaxScan
    /\ \E ch \in ScanAlphabet : text' = Append(text, ch)
    /\ UNCHANGED <<scan_pc, stripped, command, i, tokens, names>>
    /\ UNCHANGED parser_vars

\* the text is handed to the scanner
ScanBegin ==
    /\ scan_pc = "idle"
    /\ scan_pc' = "strip"
    /\ UNCHANGED <<text, stripped, command, i, tokens, names>>
    /\ UNCHANGED parser_vars

\* the scanner before a text is handed to it
InitScanFair ==
    /\ strict = FALSE
    /\ ParserStart
    /\ ScanIdle

NextScanFair ==
    \/ ScanType
    \/ ScanBegin
    \/ NextScan

\* the scanner run with its loop scheduled: a step that can be taken is taken
SpecScanFair ==
    InitScanFair /\ [][NextScanFair]_vars /\ WF_vars(NextScan)

Count(s, ch, j) ==
    Cardinality({m \in 1..j : s[m] = ch})

\* open delimiters less close delimiters among the first j characters of t
GroupDepth(t, open, close, j) ==
    Count(t, open, j) - Count(t, close, j)

\* t is one whole group: its last character closes its first, nothing before
WholeGroup(t, open, close) ==
    /\ GroupDepth(t, open, close, Len(t)) = 0
    /\ \A j \in 1..(Len(t) - 1) : GroupDepth(t, open, close, j) > 0

\* t is a group that nothing closes
OpenGroup(t, open, close) ==
    \A j \in 1..Len(t) : GroupDepth(t, open, close, j) > 0

\* the character at j of the quoted token t is escaped: an odd number of
\* backslashes stands immediately before it
Escaped(t, j) ==
    LET before == CHOOSE m \in 1..(j - 1) :
                      /\ t[m] # "\\"
                      /\ \A n \in (m + 1)..(j - 1) : t[n] = "\\"
    IN (j - 1 - before) % 2 = 1

\* the character at j of the quoted token t closes the string
ClosingQuote(t, j) ==
    t[j] = "\"" /\ ~Escaped(t, j)

\* t is one whole quoted string
WholeQuote(t) ==
    /\ Len(t) >= 2
    /\ ClosingQuote(t, Len(t))
    /\ \A j \in 2..(Len(t) - 1) : ~ClosingQuote(t, j)

\* t is a quoted string that nothing closes
OpenQuote(t) ==
    \A j \in 2..Len(t) : ~ClosingQuote(t, j)

\* t is a maximal bare word standing at cmd[p .. p + Len(t) - 1]
BareWord(cmd, t, p) ==
    /\ \A j \in 1..Len(t) : ~IsSpace(t[j]) /\ t[j] \notin {"[", "{", "\""}
    /\ \/ p + Len(t) - 1 = Len(cmd)
       \/ IsSpace(cmd[p + Len(t)])
       \/ cmd[p + Len(t)] \in {"[", "{", "\""}

\* the token t standing at cmd[p ..] is a whole group with its delimiters (a
\* group the command leaves open runs to the end of the command), or a bare
\* word without whitespace
TokenShape(cmd, t, p) ==
    LET atEnd == p + Len(t) - 1 = Len(cmd) IN
    IF t[1] = "["
    THEN WholeGroup(t, "[", "]") \/ (OpenGroup(t, "[", "]") /\ atEnd)
    ELSE IF t[1] = "{"
    THEN WholeGroup(t, "{", "}") \/ (OpenGroup(t, "{", "}") /\ atEnd)
    ELSE IF t[1] = "\""
    THEN WholeQuote(t) \/ (OpenQuote(t) /\ atEnd)
    ELSE BareWord(cmd, t, p)

RECURSIVE InOrderFrom(_, _, _)
\* the tokens toks are substrings of cmd from index from on, left to right,
\* each of its shape, with nothing but whitespace between and after them
InOrderFrom(cmd, toks, from) ==
    IF toks = <<>>
    THEN \A j \in from..Len(cmd) : IsSpace(cmd[j])
    ELSE \E p \in from..Len(cmd) :
            /\ \A j \in from..(p - 1) : IsSpace(cmd[j])
            /\ ~IsSpace(cmd[p])
            /\ Head(toks) # <<>>
            /\ p + Len(Head(toks)) - 1 <= Len(cmd)
            /\ SubSeq(cmd, p, p + Len(Head(toks)) - 1) = Head(toks)
            /\ TokenShape(cmd, Head(toks), p)
            /\ InOrderFrom(cmd, Tail(toks), p + Len(Head(toks)))

\* C3: the tokens of a logical command are its substrings in left-to-right
\* order; a token starting with "[", "{" or a double quote spans its whole
\* group with the delimiters, whitespace occurs only inside such tokens, and
\* no group is split by the whitespace inside it.
C3_TokensAreWholeGroups ==
    scan_pc \in {"resolve", "done"} => InOrderFrom(command, tokens, 1)

\* C3: a command of a bare word and a group token with whitespace inside
C3_Witness ==
    /\ scan_pc = "done"
    /\ Len(tokens) >= 2
    /\ \E k \in 1..Len(tokens) :
          /\ tokens[k][1] \in {"[", "{", "\""}
          /\ \E j \in 1..Len(tokens[k]) : tokens[k][j] = " "

\* the number of quotes before index k of line is odd
InsideQuotes(line, k) ==
    Count(line, "\"", k - 1) % 2 = 1

\* the indexes before k of line that hold ch outside quotes
OutsideQuotes(line, ch, k) ==
    {m \in 1..(k - 1) : line[m] = ch /\ ~InsideQuotes(line, m)}

\* index k of line lies inside a group some open delimiter before it started
\* and no close delimiter has ended
InsideGroup(line, open, close, k) ==
    \E m \in OutsideQuotes(line, open, k) :
        \A n \in (m + 1)..(k - 1) :
            Cardinality({c \in OutsideQuotes(line, close, n + 1) : c > m})
                <= Cardinality({o \in OutsideQuotes(line, open, n + 1) : o > m})

\* a "#" at index k of line at bracket depth 0, brace depth 0, outside quotes
CommentStart(line, k) ==
    /\ line[k] = "#"
    /\ ~InsideQuotes(line, k)
    /\ ~InsideGroup(line, "[", "]", k)
    /\ ~InsideGroup(line, "{", "}", k)

TokensOfLine(lines, k) ==
    tokenize(LogicalCommand(<<>>, rstrip_eol(lines[k])))

\* the names inside the braces of the pin target of C1
C1_Names ==
    <<<<"a">>, <<"b">>>>

\* C1: a set_input_delay or set_output_delay command whose pin target is a
\* collection token holding k names inside braces appends exactly k IODelay
\* records, one per pin name in order, all with the same clock, delay_value,
\* min_delay and max_delay.
C1_OneRecordPerPin ==
    \A n \in IO_DELAY_CMDS, flag \in {F_max, F_min} :
        numbered_lines =
            <<Line(<<n, flag, <<"2", ".", "5">>,
                     Coll(W_get_ports, Braced(C1_Names))>>) \o EOL>>
        => io_delays =
               [k \in 1..Len(C1_Names) |->
                   IODelay(C1_Names[k], <<>>, Num(2500),
                           IF n = W_set_input_delay THEN "input" ELSE "output",
                           flag = F_min, flag = F_max)]

\* the flags of create_clock that take a value
ClockValueFlags ==
    {F_name, F_period, F_waveform}

\* toks[k] is a float list of two numbers
TwoEdges(tok) ==
    /\ parse_float_list(tok, FALSE, 0, <<>>).warnings = <<>>
    /\ Len(parse_float_list(tok, FALSE, 0, <<>>).records) = 2

\* toks is a create_clock command with one -period p, p > 0, otherwise
\* valid: every flag is -name, -period or -waveform and is followed by its
\* value, and a waveform is a list of two numbers
ValidClockCommand(toks) ==
    /\ toks # <<>>
    /\ toks[1] = W_create_clock
    /\ \A k \in 2..Len(toks) :
          IsFlagLike(toks[k]) =>
              /\ toks[k] \in ClockValueFlags
              /\ k + 1 <= Len(toks)
              /\ ~IsFlagLike(toks[k + 1])
    /\ Cardinality({k \in 2..Len(toks) : toks[k] = F_period}) = 1
    /\ \A k \in 2..(Len(toks) - 1) :
          /\ toks[k] = F_period =>
                float(toks[k + 1]).ok /\ GtZero(float(toks[k + 1]).f)
          /\ toks[k] = F_waveform => TwoEdges(toks[k + 1])

\* edge is half of the period p
HalfOf(edge, p) ==
    IF p.kind = "num" THEN edge.kind = "num" /\ 2 * edge.val = p.val
    ELSE edge = p

\* the clock c has the period the tokens give and, absent -waveform, the
\* waveform <<0, p / 2>>
ClockOf(toks, c) ==
    /\ \A k \in 2..(Len(toks) - 1) :
          toks[k] = F_period => c.period = float(toks[k + 1]).f
    /\ (\A k \in 2..Len(toks) : toks[k] # F_waveform) =>
          /\ Len(c.waveform) = 2
          /\ c.waveform[1] = Num(0)
          /\ HalfOf(c.waveform[2], c.period)

\* C8: every create_clock command with -period p, p > 0, that is otherwise
\* valid appends exactly one ClockConstraint whose period is p and whose
\* waveform, when no -waveform flag is given, is <<0, p / 2>>.
C8_ValidClockAppended ==
    (Len(numbered_lines) = 1
        /\ ValidClockCommand(TokensOfLine(numbered_lines, 1)))
    => /\ status \in {"parsing", "returned"}
       /\ Len(clocks) = 1
       /\ ClockOf(TokensOfLine(numbered_lines, 1), clocks[1])

\* C8: a valid create_clock command without -waveform has been parsed
C8_Witness ==
    /\ Len(numbered_lines) = 1
    /\ ValidClockCommand(TokensOfLine(numbered_lines, 1))
    /\ \A k \in 1..Len(TokensOfLine(numbered_lines, 1)) :
          TokensOfLine(numbered_lines, 1)[k] # F_waveform
    /\ Len(clocks) = 1

\* C9: a create_clock command whose period is <= 0 never produces a
\* ClockConstraint (the domain error goes to the error reporter), hence
\* every ClockConstraint of the constraint set has period > 0.
C9_EveryPeriodPositive ==
    \A k \in 1..Len(clocks) : GtZero(clocks[k].period)

(***************************************************************************)
(* Properties of a parse session (Spec).                                   *)
(***************************************************************************)
\* the seven recognised command names
KnownCommands ==
    {W_create_clock} \cup IO_DELAY_CMDS \cup EXCEPTION_CMDS

\* the step reads one more physical line
ReadsLine ==
    Len(numbered_lines') = Len(numbered_lines) + 1

\* the physical line the step reads, its line end removed
LineRead ==
    rstrip_eol(numbered_lines'[Len(numbered_lines')])

\* the step is the dispatch of an unrecognised command: it is stored in
\* raw_commands whole and nothing else happens
UnknownStored(full, toks) ==
    (ReadsLine /\ ~IsContinued(LineRead) /\ toks # <<>>
        /\ toks[1] \notin KnownCommands)
    => /\ raw_commands' = Append(raw_commands, full)
       /\ UNCHANGED <<clocks, io_delays, exceptions, error, warnings>>
       /\ status' = "parsing"

\* C10: a logical command whose first token is not one of the seven
\* recognised command names is never an error, in strict or in lenient mode:
\* its full text is appended verbatim to raw_commands, and clocks, io_delays
\* and exceptions are left unchanged.
C10_UnknownCommandStored ==
    [][UnknownStored(LogicalCommand(pending, LineRead),
                     tokenize(LogicalCommand(pending, LineRead)))]_vars

\* C10: in strict mode an unrecognised command has been stored after a clock
C10_Witness ==
    /\ strict
    /\ status = "parsing"
    /\ clocks # <<>>
    /\ raw_commands # <<>>

\* a known command that lacks its required field: a create_clock without a
\* -period token, a set_input_delay / set_output_delay without a numeric token
MissingRequired(toks) ==
    \/ /\ toks[1] = W_create_clock
       /\ \A k \in 2..Len(toks) : toks[k] # F_period
    \/ /\ toks[1] \in IO_DELAY_CMDS
       /\ \A k \in 2..Len(toks) : ~float(toks[k]).ok

\* a known command with a malformed value: a -period that is no number, a
\* positional value of a timing exception that is no number
MalformedValue(toks) ==
    \/ /\ toks[1] = W_create_clock
       /\ Len(toks) >= 3
       /\ toks[2] = F_period
       /\ ~float(toks[3]).ok
    \/ /\ toks[1] \in EXCEPTION_CMDS
       /\ Len(toks) >= 2
       /\ ~IsFlagLike(toks[2])
       /\ ~float(toks[2]).ok

\* the step is the dispatch of a command with a reportable error in strict
\* mode: ParseError with the command's line number, text and a message
ErrorRaised(full, toks) ==
    (strict /\ ReadsLine /\ ~IsContinued(LineRead) /\ toks # <<>>
        /\ (MissingRequired(toks) \/ MalformedValue(toks)))
    => /\ status' = "ParseError"
       /\ error'.line_num = start_line'
       /\ error'.line_text = full
       /\ error'.message # ""
       /\ UNCHANGED <<clocks, io_delays, exceptions, raw_commands>>

\* C6: in strict mode the first reportable error aborts the parse by raising
\* ParseError with the command's line number, its text and a message; no
\* command after it is dispatched and no constraint set is returned.
C6_StrictAborts ==
    [][/\ ErrorRaised(LogicalCommand(pending, LineRead),
                      tokenize(LogicalCommand(pending, LineRead)))
       /\ strict => warnings' = <<>>
       /\ status = "ParseError" => UNCHANGED vars]_vars

\* C6: a strict parse aborted on its third line, after a clock was appended
C6_Witness ==
    /\ strict
    /\ status = "ParseError"
    /\ Len(numbered_lines) = 3
    /\ error.line_num = 3
    /\ clocks # <<>>

\* lines without its k-th line
Without(lines, k) ==
    SubSeq(lines, 1, k - 1) \o SubSeq(lines, k + 1, Len(lines))

\* line k of lines is a logical command by itself
Standalone(lines, k) ==
    /\ ~IsContinued(rstrip_eol(lines[k]))
    /\ k = 1 \/ ~IsContinued(rstrip_eol(lines[k - 1]))

\* line k of lines is a known command that lacks its required field
BadCommandAt(lines, k) ==
    /\ Standalone(lines, k)
    /\ TokensOfLine(lines, k) # <<>>
    /\ MissingRequired(TokensOfLine(lines, k))

\* C7: in lenient mode a known command that lacks a required field appends
\* nothing to clocks, io_delays, exceptions or raw_commands, and the returned
\* constraint set holds the records of the commands before and after it
\* exactly as if the bad command were absent from the input.
C7_BadCommandAsIfAbsent ==
    (~strict /\ status = "returned") =>
        \A k \in 1..Len(numbered_lines) :
            BadCommandAt(numbered_lines, k) =>
                Current.result =
                    parse_from_iter(Without(numbered_lines, k), FALSE).result

\* C7: a lenient parse has returned the records of the commands before and
\* after a bad command
C7_Witness ==
    /\ ~strict
    /\ status = "returned"
    /\ Len(numbered_lines) = 3
    /\ BadCommandAt(numbered_lines, 2)
    /\ Len(clocks) + Len(io_delays) + Len(exceptions) + Len(raw_commands) = 2

\* the index of the last backslash of line
LastBackslash(line) ==
    CHOOSE b \in 1..Len(line) :
        line[b] = "\\" /\ \A j \in (b + 1)..Len(line) : line[j] # "\\"

\* the single physical line equivalent to the continued line first and the
\* line next that follows it: the backslash and the line end give way to one space
SingleLine(first, next) ==
    SubSeq(first, 1, LastBackslash(first) - 1) \o <<" ">> \o next

RECURSIVE Joined(_)
\* lines with every command split over several physical lines on one line
Joined(lines) ==
    IF Len(lines) <= 1 THEN lines
    ELSE IF IsContinued(rstrip_eol(lines[1]))
    THEN Joined(<<SingleLine(lines[1], lines[2])>> \o SubSeq(lines, 3, Len(lines)))
    ELSE <<lines[1]>> \o Joined(Tail(lines))

\* the first physical line of the command that ends at the last line of lines
FirstLineOfLast(lines) ==
    CHOOSE f \in 1..Len(lines) :
        /\ f = 1 \/ ~IsContinued(rstrip_eol(lines[f - 1]))
        /\ \A j \in f..(Len(lines) - 1) : IsContinued(rstrip_eol(lines[j]))

\* st is the outcome the call is left with
SameOutcome(st) ==
    /\ Current.result = st.result
    /\ status = st.status
    /\ error.message = st.error.message
    /\ error.line_text = st.error.line_text

\* C5: a command split over several physical lines with trailing backslashes
\* parses to the same records as its single-line equivalent, and the line
\* number attached to the command (and to a ParseError raised for it) is the
\* number of its first physical line.
C5_ContinuationAsSingleLine ==
    /\ status \in {"returned", "ParseError"} =>
          SameOutcome(parse_from_iter(Joined(numbered_lines), strict))
    /\ status = "ParseError" =>
          error.line_num = FirstLineOfLast(numbered_lines)
    /\ \A w \in 1..Len(warnings) :
          /\ warnings[w].line_num \in 1..Len(numbered_lines)
          /\ \/ warnings[w].line_num = 1
             \/ ~IsContinued(rstrip_eol(numbered_lines[warnings[w].line_num - 1]))

\* C5: a command split over two physical lines has produced a clock, and
\* one split over two lines has raised ParseError at its first line
C5_Witness ==
    /\ Len(numbered_lines) = 3
    /\ IsContinued(rstrip_eol(numbered_lines[2]))
    /\ \/ status = "returned" /\ Len(clocks) = 2
       \/ status = "ParseError" /\ error.line_num = 2

(***************************************************************************)
(* Further properties of one parsed command (SpecCmd).                     *)
(***************************************************************************)
\* C12: in lenient mode a parse of any input text, however malformed, runs
\* to the end of the input and returns a constraint set; it never raises
\* ParseError or any other exception.
C12_LenientNeverRaises ==
    ~strict => status \in {"parsing", "returned"}

\* the pin names of the command of C13
C13_Pins ==
    <<<<"a">>, <<"b">>>>

\* C13: a set_input_delay / set_output_delay command whose delay value is a
\* negative numeric literal yields one IODelay per pin with that negative
\* delay_value, and is not reported as missing its delay value.
C13_NegativeDelayKept ==
    \A n \in IO_DELAY_CMDS :
        numbered_lines =
            <<Line(<<n, F_clock, <<"k">>, <<"-", "0", ".", "5">>,
                     Coll(W_get_pins, JoinWith(C13_Pins, Sp))>>) \o EOL>>
        => /\ status \in {"parsing", "returned"}
           /\ warnings = <<>>
           /\ io_delays =
                  [j \in 1..Len(C13_Pins) |->
                      IODelay(C13_Pins[j], <<"k">>, Num(0 - 500),
                              IF n = W_set_input_delay THEN "input" ELSE "output",
                              FALSE, FALSE)]

\* tok is not among the tokens toks
Absent(tok, toks) ==
    \A j \in 1..Len(toks) : toks[j] # tok

\* the false_path record e of the command toks has no value, and no
\* endpoints where the command has no -from / -to
FalsePathOf(toks, e) ==
    /\ e.value = None
    /\ Absent(F_from, toks) => e.from_list = <<>>
    /\ Absent(F_to, toks) => e.to_list = <<>>

\* C14: every TimingException produced by a set_false_path command has no
\* value whatever tokens the command contains, and its from_list and to_list
\* are empty when -from and -to are absent.
C14_FalsePathHasNoValue ==
    \A k \in 1..Len(exceptions) :
        (Len(numbered_lines) = 1 /\ exceptions[k].exception_type = "false_path")
        => FalsePathOf(TokensOfLine(numbered_lines, 1), exceptions[k])

\* the entries of a float list token
FloatListParts(tok) ==
    split_ws(replace_commas(strip_chars(strip(tok), {"{", "}"})))

\* a known command with a non-numeric token where a number is required: the
\* -period value, an entry of the -waveform list, a bare positional token of
\* a timing exception
NonNumericWhereNumber(toks) ==
    \/ MalformedValue(toks)
    \/ /\ toks[1] = W_create_clock
       /\ Len(toks) >= 3
       /\ toks[2] = F_waveform
       /\ \E p \in 1..Len(FloatListParts(toks[3])) :
             ~float(FloatListParts(toks[3])[p]).ok

\* no record of any kind has been appended
NothingAppended ==
    /\ clocks = <<>>
    /\ io_delays = <<>>
    /\ exceptions = <<>>
    /\ raw_commands = <<>>

\* the command toks, read in lenient mode, is reported and entirely skipped
ReportedAndSkipped(toks) ==
    (toks # <<>> /\ NonNumericWhereNumber(toks))
    => /\ status \in {"parsing", "returned"}
       /\ warnings # <<>>
       /\ NothingAppended

\* C15: in lenient mode a known command that has a non-numeric token where a
\* number is required reports an error and is entirely skipped: no record
\* for that command, complete or with defaulted fields, is appended to any
\* collection.
C15_NonNumericSkipped ==
    (~strict /\ Len(numbered_lines) = 1)
    => ReportedAndSkipped(TokensOfLine(numbered_lines, 1))

\* no token of toks after the command name starts like a flag
AllBare(toks) ==
    \A k \in 2..Len(toks) : ~IsFlagLike(toks[k])

\* the index of the first numeric token of toks
FirstNumeric(toks) ==
    CHOOSE k \in 2..Len(toks) :
        float(toks[k]).ok /\ \A j \in 2..(k - 1) : ~float(toks[j]).ok

\* every record of the I/O delay command toks carries its first number
FirstNumberIsDelay(toks) ==
    (/\ toks # <<>>
     /\ toks[1] \in IO_DELAY_CMDS
     /\ AllBare(toks)
     /\ \E k \in 2..Len(toks) : float(toks[k]).ok)
    => \A j \in 1..Len(io_delays) :
           io_delays[j].delay_value = float(toks[FirstNumeric(toks)]).f

\* C17: for set_input_delay / set_output_delay the delay value is the first
\* bare numeric token encountered in the command: when several bare numeric
\* tokens are present, the delay_value of the emitted records equals the
\* first of them.
C17_FirstNumberIsDelay ==
    Len(numbered_lines) = 1
    => FirstNumberIsDelay(TokensOfLine(numbered_lines, 1))

\* the flags each per-command parser recognises
RecognisedFlags(cmd_name) ==
    IF cmd_name = W_create_clock THEN ClockValueFlags
    ELSE IF cmd_name \in IO_DELAY_CMDS
    THEN {F_clock, F_max, F_min, F_reference_pin} \cup IoBoolFlags
    ELSE {F_from, F_to, F_through} \cup ExceptionBoolFlags

\* the first argument of the known command toks is an unrecognised flag and
\* the token after it is a recognised flag
UnknownFlagBeforeFlag(toks) ==
    /\ Len(toks) >= 3
    /\ toks[1] \in KnownCommands
    /\ IsFlagLike(toks[2])
    /\ toks[2] \notin RecognisedFlags(toks[1])
    /\ ~float(toks[2]).ok
    /\ toks[3] \in RecognisedFlags(toks[1])

\* the outcome of the command is that of the dispatch outcome d
SameRecords(d) ==
    /\ ConstraintSet(clocks, io_delays, exceptions, raw_commands) = d.result
    /\ (status \in {"parsing", "returned"}) = (d.raised = "")
    /\ (warnings = <<>>) = (d.warnings = <<>>)

\* the command toks parses as it does without its unrecognised first flag
FlagAfterUnknownKept(toks) ==
    (toks # <<>> /\ UnknownFlagBeforeFlag(toks))
    => SameRecords(dispatch_tokens(strict, 1, <<>>,
                                   <<toks[1]>> \o SubSeq(toks, 3, Len(toks)),
                                   EmptySet))

\* C18: in every per-command parser a flag outside the recognised set
\* consumes the following token as its argument only when that token does
\* not itself start like a flag; a recognised flag placed directly after an
\* unrecognised flag is still processed with its normal effect.
C18_FlagAfterUnknownFlagKept ==
    Len(numbered_lines) = 1
    => FlagAfterUnknownKept(TokensOfLine(numbered_lines, 1))

\* toks[k] is a finite number
FiniteNumber(toks, k) ==
    exception_value(toks[k]).raises = ""

\* toks is a set_multicycle_path command of a bare multiplier at m and a
\* -setup / -hold at s followed by a number
MultiplierAndMagnitude(toks, m, s) ==
    /\ toks[1] = W_set_multicycle_path
    /\ Len(toks) = 4
    /\ {m, s, s + 1} = {2, 3, 4}
    /\ toks[s] \in {F_setup, F_hold}
    /\ FiniteNumber(toks, s + 1)
    /\ FiniteNumber(toks, m)

\* the record of the command toks carries the -setup / -hold magnitude
MagnitudeWins(toks) ==
    \A m \in {2, 4}, s \in {2, 3} :
        (toks # <<>> /\ MultiplierAndMagnitude(toks, m, s))
        => /\ Len(exceptions) = 1
           /\ exceptions[1].value = exception_value(toks[s + 1]).value

\* C20: for set_multicycle_path, when the command has both a bare positional
\* multiplier and a numeric magnitude given right after -setup or -hold, the
\* record's value is the -setup / -hold magnitude, whichever of the two
\* appears first in the command.
C20_SetupMagnitudeWins ==
    Len(numbered_lines) = 1
    => MagnitudeWins(TokensOfLine(numbered_lines, 1))

(***************************************************************************)
(* Further properties of the scanner run (SpecScan).                       *)
(***************************************************************************)
\* the length of the run of backslashes that ends right before index j
BackslashRun(line, j) ==
    Cardinality({m \in 1..(j - 1) : \A n \in m..(j - 1) : line[n] = "\\"})

\* the quote at index q of line opens the first string of the line, every
\* quote between q and k is backslash-escaped, there is one, and the first
\* "#" of the line is at k
HashAfterEscapedQuote(line, q, k) ==
    /\ q < k
    /\ line[q] = "\""
    /\ \A m \in 1..(q - 1) : line[m] \notin {"\"", "#", "\\"}
    /\ line[k] = "#"
    /\ \A m \in (q + 1)..(k - 1) :
          /\ line[m] # "#"
          /\ line[m] = "\"" => BackslashRun(line, m) % 2 = 1
    /\ \E m \in (q + 1)..(k - 1) : line[m] = "\""

\* C16: during comment stripping the inside-quote flag toggles only on an
\* unescaped quote: a backslash-escaped quote inside a quoted string does
\* not end the string, so a "#" that follows it but precedes the closing
\* unescaped quote is preserved as literal text.
C16_EscapedQuoteKeepsString ==
    scan_pc # "strip" =>
        \A q \in 1..Len(text), k \in 1..Len(text) :
            HashAfterEscapedQuote(text, q, k)
            => Len(stripped) >= k /\ stripped[k] = "#"

\* a step of the outer loop of the tokenizer moves the cursor forward by at
\* least one character and not beyond the end of the command
CursorAdvances ==
    (scan_pc = "tokenize" /\ scan_pc' = "tokenize")
    => /\ i' >= i + 1
       /\ i' <= Len(command) + 1

\* the rest of cmd from p on starts a group that nothing closes
OpenFrom(cmd, p) ==
    \/ cmd[p] = "[" /\ OpenGroup(SubSeq(cmd, p, Len(cmd)), "[", "]")
    \/ cmd[p] = "{" /\ OpenGroup(SubSeq(cmd, p, Len(cmd)), "{", "}")
    \/ cmd[p] = "\"" /\ OpenQuote(SubSeq(cmd, p, Len(cmd)))

\* the group left open at the end of the command is the final token
OpenGroupIsFinalToken ==
    scan_pc \in {"resolve", "done"} =>
        \A p \in 1..Len(command) :
            (/\ \A j \in 1..(p - 1) : command[j] \notin {"[", "{", "\""}
             /\ OpenFrom(command, p))
            => /\ tokens # <<>>
               /\ tokens[Len(tokens)] = SubSeq(command, p, Len(command))

\* C19: the tokenizer terminates on every finite command string: each
\* iteration of its outer scan advances the cursor by at least one
\* character, and a bracket, brace or quote group left unterminated at the
\* end of the string is closed there and emitted as one final token
\* extending to the end of the string.
C19_TokenizerTerminates ==
    /\ [][CursorAdvances]_vars
    /\ (scan_pc = "tokenize") ~> (scan_pc = "resolve")
    /\ []OpenGroupIsFinalToken

\* C19: the tokenizer has ended on a command of a bare word and a group
\* that nothing closes
C19_Witness ==
    /\ scan_pc = "resolve"
    /\ Len(tokens) = 2
    /\ \E p \in 2..Len(command) :
          /\ OpenFrom(command, p)
          /\ tokens[2] = SubSeq(command, p, Len(command))

(***************************************************************************)
(* Properties of repeated parse calls (SpecTwice).                         *)
(***************************************************************************)
\* the call that has ended has the outcome o of the earlier call
SameAsEarlier(o) ==
    /\ status = o.status
    /\ error = o.error
    /\ ConstraintSet(clocks, io_delays, exceptions, raw_commands) = o.result

\* a step leaves every outcome held from the earlier calls as it is
EarlierKept ==
    SubSeq(earlier', 1, Len(earlier)) = earlier

IsPrefix(s, t) ==
    /\ Len(s) <= Len(t)
    /\ SubSeq(t, 1, Len(s)) = s

\* a step keeps the contents of every collection as a prefix
AppendOnly ==
    /\ IsPrefix(clocks, clocks')
    /\ IsPrefix(io_delays, io_delays')
    /\ IsPrefix(exceptions, exceptions')
    /\ IsPrefix(raw_commands, raw_commands')

\* a step that dispatches a command without a raise puts the records d of
\* that command, as one block, behind the records of the commands before it
BlockAppended(d) ==
    (ReadsLine /\ ~IsContinued(LineRead) /\ status' = "parsing")
    => /\ clocks' = clocks \o d.result.clocks
       /\ io_delays' = io_delays \o d.result.io_delays
       /\ exceptions' = exceptions \o d.result.exceptions
       /\ raw_commands' = raw_commands \o d.result.raw_commands

\* the pin names of the multi-pin command of the parse sessions, in order
C21_Pins ==
    <<<<"a">>, <<"b">>>>

\* the multi-pin I/O delay command of the parse sessions
C21_MultiPin ==
    Line(<<W_set_input_delay, F_max, <<"2", ".", "5">>,
           Coll(W_get_ports, JoinWith(C21_Pins, Sp))>>) \o EOL

\* a step that reads the multi-pin command by itself appends one record per
\* pin, next to each other and in pin order
PinsInOrder ==
    (ReadsLine /\ pending = <<>> /\ numbered_lines'[Len(numbered_lines')] = C21_MultiPin)
    => /\ Len(io_delays') = Len(io_delays) + Len(C21_Pins)
       /\ \A j \in 1..Len(C21_Pins) :
             io_delays'[Len(io_delays) + j].pin = C21_Pins[j]

\* C21: throughout one parse the four collections clocks, io_delays,
\* exceptions and raw_commands are append-only: after each dispatched
\* command every collection has its previous contents as a prefix, so the
\* records of each collection appear in the order of the logical commands
\* that produced them, and the records of one multi-pin I/O delay command
\* are contiguous and in pin order.
C21_AppendOnly ==
    [][/\ AppendOnly
       /\ BlockAppended(dispatch_command(strict, 1,
                                         LogicalCommand(pending, LineRead),
                                         EmptySet))
       /\ PinsInOrder]_vars

\* C21: a parse has returned the records of the multi-pin command read
\* twice, with a clock command in between
C21_Witness ==
    /\ status = "returned"
    /\ Len(clocks) = 1
    /\ numbered_lines[1] = C21_MultiPin
    /\ numbered_lines[Len(numbered_lines)] = C21_MultiPin
    /\ [j \in 1..Len(io_delays) |-> io_delays[j].pin] = C21_Pins \o C21_Pins

====
